---- MODULE Spec2Model ----
(***************************************************************************)
(* Model of smtag/extract.py: the ExtractorXML orchestrator, its batch     *)
(* scheduler (_run), and the two celery tasks examples_from_file_task and  *)
(* save_task, together with the file system they act on.                   *)
(*                                                                         *)
(* Text is a sequence of one-character strings.  Probabilities and random  *)
(* draws are counted in tenths (10 stands for 1.0).                        *)
(***************************************************************************)
EXTENDS Integers, Sequences, FiniteSets, Bags, TLC

\* ------------------------------------------------------------------ bounds
\* Largest number of directory entries of the corpus, all subsets together.
MaxFiles == 3
\* Largest value of config.celery_batch_size that is explored.
MaxBatch == 2
\* Largest number of directory entries of the corpus, and largest batch size,
\* of the runs that explore the text of the examples (SpecText).
MaxTextFiles == 2

\* ------------------------------------------------------------------ text
Whitespace == {" ", "\n"}

Min(S) == CHOOSE x \in S : \A y \in S : x <= y
Max(S) == CHOOSE x \in S : \A y \in S : x >= y

RECURSIVE Flatten(_)
\* "".join(parts)
Flatten(parts) ==
    IF parts = <<>> THEN <<>> ELSE Head(parts) \o Flatten(Tail(parts))

RECURSIVE KeepIdx(_, _, _)
\* The characters s[i], i = from..Len(s), whose index satisfies keep, in order.
KeepIdx(s, keep, from) ==
    IF from > Len(s) THEN <<>>
    ELSE (IF keep[from] THEN <<s[from]>> ELSE <<>>) \o KeepIdx(s, keep, from + 1)

\* str.strip(): leading and trailing whitespace removed.
strip(s) ==
    LET idx == {i \in 1..Len(s) : s[i] \notin Whitespace}
    IN  IF idx = {} THEN <<>> ELSE SubSeq(s, Min(idx), Max(idx))

\* str.rstrip()
rstrip(s) ==
    LET idx == {i \in 1..Len(s) : s[i] \notin Whitespace}
    IN  IF idx = {} THEN <<>> ELSE SubSeq(s, 1, Max(idx))

\* utils.cleanup: newlines become blanks and runs of blanks collapse to one
\* blank, so that the text fits on one line.
cleanup(s) ==
    LET t == [i \in 1..Len(s) |-> IF s[i] = "\n" THEN " " ELSE s[i]]
        keep == [i \in 1..Len(s) |-> ~(t[i] = " " /\ i > 1 /\ t[i - 1] = " ")]
    IN  KeepIdx(t, keep, 1)

\* Number of newline characters of a text.
Newlines(s) == Cardinality({i \in 1..Len(s) : s[i] = "\n"})

\* ------------------------------------------------------------------ XML
\* An element is [tag, text, kids, tail]; a kid is a leaf [tag, text, tail].
\* A document is [ok, elems]: ok is FALSE for a file lxml cannot parse.
XPathTag == "t"

OpenTag(tag) == <<"<", tag, ">">>
CloseTag(tag) == <<"<", "/", tag, ">">>
EmptyTag(tag) == <<"<", tag, "/", ">">>

\* lxml.etree.tostring of a leaf element (its tail included).
tostringKid(k) ==
    (IF k.text = <<>> THEN EmptyTag(k.tag)
     ELSE OpenTag(k.tag) \o k.text \o CloseTag(k.tag)) \o k.tail

\* lxml.etree.tostring(e): the markup of e, followed by its tail.
tostring(e) ==
    (IF e.text = <<>> /\ e.kids = <<>> THEN EmptyTag(e.tag)
     ELSE OpenTag(e.tag) \o e.text
          \o Flatten([j \in 1..Len(e.kids) |-> tostringKid(e.kids[j])])
          \o CloseTag(e.tag)) \o e.tail

\* utils.innertext(e): the text of e and of its descendants, with the tails of
\* the descendants, without the tail of e itself.
innertext(e) ==
    e.text \o Flatten([j \in 1..Len(e.kids) |-> e.kids[j].text \o e.kids[j].tail])

\* ------------------------------------------------------------------ extraction
\* The places of a document the selector can match: <<i, 0>> is the i-th
\* top-level element, <<i, j>> its j-th kid.
AsElement(k) == [tag |-> k.tag, text |-> k.text, kids |-> <<>>, tail |-> k.tail]

ElementAt(tree, path) ==
    IF path[2] = 0 THEN tree[path[1]] ELSE AsElement(tree[path[1]].kids[path[2]])

\* xml.xpath(xpath): the matched elements, in document order.
xpath(tree) ==
    Flatten([i \in 1..Len(tree) |->
        (IF tree[i].tag = XPathTag THEN << <<i, 0>> >> ELSE <<>>)
        \o Flatten([j \in 1..Len(tree[i].kids) |->
              IF tree[i].kids[j].tag = XPathTag THEN << <<i, j>> >> ELSE <<>>])])

\* The loop "for e in elements: e.tail = None": every matched element of the
\* tree loses its tail; the tree is shared, so a matched kid loses its tail
\* inside its parent too.
ClearTails(tree) ==
    [i \in 1..Len(tree) |->
        [tag  |-> tree[i].tag,
         text |-> tree[i].text,
         kids |-> [j \in 1..Len(tree[i].kids) |->
                     [tag  |-> tree[i].kids[j].tag,
                      text |-> tree[i].kids[j].text,
                      tail |-> IF tree[i].kids[j].tag = XPathTag THEN <<>>
                               ELSE tree[i].kids[j].tail]],
         tail |-> IF tree[i].tag = XPathTag THEN <<>> ELSE tree[i].tail]]

\* Mutant of _parse_xml_file: the loop over the matched elements is left out.
_parse_xml_file_tails_kept(doc, remove_tail) ==
    LET hits == xpath(doc.elems)
    IN  [n \in 1..Len(hits) |-> ElementAt(doc.elems, hits[n])]

\* _parse_xml_file of a well-formed document: the matched elements, read from
\* the tree as the loop left it.
_parse_xml_file(doc, remove_tail) ==
    LET tree == IF remove_tail THEN ClearTails(doc.elems) ELSE doc.elems
        hits == xpath(doc.elems)
    IN  [n \in 1..Len(hits) |-> ElementAt(tree, hits[n])]

\* Mutant of _filter: an example of exactly min_length characters passes.
_filter_inclusive(example, min_length) ==
    IF Len(example) >= min_length THEN example ELSE <<>>

\* _filter: the example itself when it is longer than min_length, else ''.
_filter(example, min_length) ==
    IF Len(example) > min_length THEN example ELSE <<>>

\* Python truth value of a str.
Truthy(str) == str # <<>>

\* Index of the first sentence break of s: a full stop followed by whitespace
\* with more text behind it; 0 when there is none.
SentBreak(s) ==
    LET br == {i \in 1..Len(s) - 1 :
                  /\ s[i] = "."
                  /\ s[i + 1] \in Whitespace
                  /\ \E m \in i + 1..Len(s) : s[m] \notin Whitespace}
    IN  IF br = {} THEN 0 ELSE Min(br)

RECURSIVE tokenize(_)
\* PunktSentenceTokenizer().tokenize(text): the sentences of text, the
\* whitespace between two sentences and behind the last one left out.
tokenize(s) ==
    LET b == SentBreak(s)
    IN  IF b = 0 THEN <<rstrip(s)>>
        ELSE LET rest == SubSeq(s, b + 1, Len(s))
                 nxt == Min({m \in 1..Len(rest) : rest[m] \notin Whitespace})
             IN  <<SubSeq(s, 1, b)>> \o tokenize(SubSeq(rest, nxt, Len(rest)))

\* Mutant of ExamplesOfElement: with punkt the whole inner text is what is
\* filtered, and every sentence of a text that passes is kept.
ExamplesOfElementByText(e, punkt, keep_xml, min_length) ==
    IF keep_xml
    THEN IF Truthy(_filter(innertext(e), min_length)) THEN <<tostring(e)>> ELSE <<>>
    ELSE IF Truthy(_filter(innertext(e), min_length))
         THEN IF punkt THEN tokenize(innertext(e)) ELSE <<innertext(e)>>
         ELSE <<>>

\* Mutant of ExamplesOfElement: with keep_xml the markup is what is filtered.
ExamplesOfElementByMarkup(e, punkt, keep_xml, min_length) ==
    IF keep_xml
    THEN IF Truthy(_filter(tostring(e), min_length)) THEN <<tostring(e)>> ELSE <<>>
    ELSE IF punkt
         THEN SelectSeq(tokenize(innertext(e)),
                        LAMBDA sent : Truthy(_filter(sent, min_length)))
         ELSE IF Truthy(_filter(innertext(e), min_length))
              THEN <<innertext(e)>> ELSE <<>>

\* Examples of one matched element (one turn of the loops of lines 50-64).
ExamplesOfElement(e, punkt, keep_xml, min_length) ==
    IF keep_xml
    THEN IF Truthy(_filter(innertext(e), min_length)) THEN <<tostring(e)>> ELSE <<>>
    ELSE IF punkt
         THEN SelectSeq(tokenize(innertext(e)),
                        LAMBDA sent : Truthy(_filter(sent, min_length)))
         ELSE IF Truthy(_filter(innertext(e), min_length))
              THEN <<innertext(e)>> ELSE <<>>

_extract_text_from_elements(elements, punkt, keep_xml, min_length) ==
    Flatten([n \in 1..Len(elements) |->
                ExamplesOfElement(elements[n], punkt, keep_xml, min_length)])

\* Mutant of _cleanup: the examples are returned as extracted.
_cleanup_skipped(examples) == examples

_cleanup(examples) == [n \in 1..Len(examples) |-> cleanup(examples[n])]

\* The value examples_from_file_task returns for a well-formed document.
examples_from_file_task(doc, punkt, keep_xml, remove_tail, min_length) ==
    _cleanup(_extract_text_from_elements(_parse_xml_file(doc, remove_tail),
                                         punkt, keep_xml, min_length))

Elem(text) == [tag |-> XPathTag, text |-> text, kids |-> <<>>, tail |-> <<>>]
Doc(elems) == [ok |-> TRUE, elems |-> elems]

\* A file that is not well-formed XML.
BadDoc == [ok |-> FALSE, elems |-> <<>>]

\* ------------------------------------------------------------------ state
VARIABLES
    parent_exists,       \* the parent of the destination directory exists
    destination_exists,  \* the destination directory exists
    source_dirs,         \* the subset directories that exist under the corpus
    dest_files,          \* subset -> [exists, data]: the file <subset>.txt
    self,                \* the fields of the ExtractorXML object
    config,              \* config.min_char_length, config.celery_batch_size
    pc,                  \* where the orchestrating control flow stands
    error,               \* the error that ended it, "" when there is none
    k,                   \* index of the subset extract_from_corpus is at
    filepaths,           \* _run: the eligible files of the subset, each named
                         \* by its place in what iterdir() returned
    start,               \* _run: the loop variable
    batches,             \* _run: the slices [start, end, files] dispatched so far
    num_saved_examples,  \* _run: the running total
    saved_num,           \* extract_from_corpus: the result mapping
    task_list,           \* the extraction units of the current batch
    saving_tasks,        \* the write units of the current batch
    completed,           \* subset -> number of save_task calls that returned
    extracted,           \* _run: examples the extraction units returned so far
    listed,              \* number of directory entries iterdir() returned so far
    dir_eligible,        \* _run: entries of the listed directory whose suffix
                         \* is .xml, .XML or .nxml
    read                 \* _run: the bag of documents the extraction units
                         \* have parsed so far

fsvars == <<parent_exists, destination_exists, source_dirs, dest_files>>
runvars == <<k, filepaths, start, batches, num_saved_examples, saved_num>>
poolvars == <<task_list, saving_tasks>>
dirvars == <<dir_eligible, read>>
vars == <<parent_exists, destination_exists, source_dirs, dest_files, self,
          config, pc, error, k, filepaths, start, batches,
          num_saved_examples, saved_num, task_list, saving_tasks, completed,
          extracted, listed, dir_eligible, read>>

\* Mutant of ALLOWED_EXTENSION: every entry of the directory is taken.
ANY_EXTENSION == {".xml", ".XML", ".nxml", ".txt"}

ALLOWED_EXTENSION == {".xml", ".XML", ".nxml"}

Suffixes == ALLOWED_EXTENSION \cup {".txt"}

\* The subsets of a run, as a set.
SubsetNames == {self.subsets[n] : n \in 1..Len(self.subsets)}

\* All sequences over S of length at most n.
SeqsUpTo(S, n) == UNION {[1..m -> S] : m \in 0..n}

\* File contents and counters before any work.
NoFile == [exists |-> FALSE, data |-> <<>>]

\* The state shared by every initial state: nothing has run.
InitControl ==
    /\ pc = "new"
    /\ error = ""
    /\ k = 0
    /\ filepaths = <<>>
    /\ start = 0
    /\ batches = <<>>
    /\ num_saved_examples = 0
    /\ saved_num = <<>>
    /\ task_list = <<>>
    /\ saving_tasks = <<>>
    /\ extracted = 0
    /\ listed = 0
    /\ dir_eligible = 0
    /\ read = EmptyBag

\* ------------------------------------------------------------------ __init__
\* Mutant of parent_missing: the test of line 147 left out.
parent_missing_unchecked == FALSE

\* The test of line 147: the parent of the destination is missing.
parent_missing == ~parent_exists

\* ExtractorXML.__init__, lines 140-158: the checks, in the order of the code.
__init__ ==
    /\ pc = "new"
    /\ IF destination_exists
       THEN /\ pc' = "raised"
            /\ error' = "already exists"
            /\ UNCHANGED destination_exists
       ELSE IF parent_missing
       THEN /\ pc' = "raised"
            /\ error' = "parent does not exist"
            /\ UNCHANGED destination_exists
       ELSE /\ destination_exists' = TRUE
            /\ IF \E sub \in SubsetNames : dest_files[sub].exists
               THEN /\ pc' = "raised"
                    /\ error' = "files already exist"
               ELSE IF ~(SubsetNames \subseteq source_dirs)
               THEN /\ pc' = "raised"
                    /\ error' = "missing subset"
               ELSE /\ pc' = "ready"
                    /\ error' = ""
    /\ UNCHANGED <<parent_exists, source_dirs, dest_files, self, config,
                   completed, extracted, listed>>
    /\ UNCHANGED runvars
    /\ UNCHANGED poolvars
    /\ UNCHANGED dirvars

\* ------------------------------------------------------------------ extract_from_corpus, _run
\* Mutant of Subset: every _run is given the first subset.
SubsetFirst == self.subsets[1]

\* The subset _run is working on, which names its destination file.
Subset == self.subsets[k]

batch_size == config.celery_batch_size

\* Mutant of Gate: the comparison of line 211 turned round.
GateInverted(proba, inclusion_probability) == proba >= inclusion_probability

\* The sampling gate of line 211.
Gate(proba, inclusion_probability) == proba <= inclusion_probability

\* Values random() can return, in tenths: 0.0 <= proba < 1.0.
Draws == {0, 5, 9}

AllIn(tasks, state) == \A n \in 1..Len(tasks) : tasks[n].state = state
SomeIn(tasks, state) == \E n \in 1..Len(tasks) : tasks[n].state = state

\* Units of work that were dispatched and have not returned.
InFlight(tasks) == {n \in 1..Len(tasks) : tasks[n].state = "PENDING"}

\* extract_from_corpus, line 167 and the head of the loop of line 168.
extract_from_corpus ==
    /\ pc = "ready"
    /\ saved_num' = <<>>
    /\ IF self.subsets = <<>>
       THEN pc' = "returned" /\ k' = 0
       ELSE pc' = "call_run" /\ k' = 1
    /\ UNCHANGED <<filepaths, start, batches, num_saved_examples>>
    /\ UNCHANGED <<error, self, config, completed, extracted, listed>>
    /\ UNCHANGED fsvars
    /\ UNCHANGED poolvars
    /\ UNCHANGED dirvars

\* _run, lines 193-196: the directory is listed and the eligible files kept.
\* The directory holds any entries that keep the corpus within max entries.
_run_iterdir(max) ==
    /\ pc = "call_run"
    /\ \E l \in SeqsUpTo(Suffixes, max - listed) :
          /\ filepaths' = SelectSeq([n \in 1..Len(l) |-> n],
                                    LAMBDA n : l[n] \in ALLOWED_EXTENSION)
          /\ listed' = listed + Len(l)
          /\ dir_eligible' = Cardinality({n \in 1..Len(l) :
                                             l[n] \in {".xml", ".XML", ".nxml"}})
    /\ read' = EmptyBag
    /\ start' = 0
    /\ num_saved_examples' = 0
    /\ batches' = <<>>
    /\ extracted' = 0
    /\ pc' = "loop"
    /\ UNCHANGED <<k, saved_num, error, self, config, completed>>
    /\ UNCHANGED fsvars
    /\ UNCHANGED poolvars

\* Mutant of BatchEnd: the slice holds one file more than the batch size.
BatchEndWide(from, size, N) == IF from + size + 1 < N THEN from + size + 1 ELSE N

\* Mutant of BatchEnd: the last batch stops one file short.
BatchEndShort(from, size, N) == IF from + size < N THEN from + size ELSE N - 1

\* The end of the slice filepaths[start:end], line 198.
BatchEnd(from, size, N) == IF from + size < N THEN from + size ELSE N

\* Mutant of NextStart: the range steps by one file, not by one batch.
NextStartByOne(from, size) == from + 1

\* The next value of range(0, N, batch_size), line 197.
NextStart(from, size) == from + size

\* _run, lines 197-204: one extraction unit per file of the batch is sent.
_run_apply_async ==
    /\ pc = "loop"
    /\ start < Len(filepaths)
    /\ LET end == BatchEnd(start, batch_size, Len(filepaths))
       IN  /\ task_list' = [n \in 1..(end - start) |->
                               [filepath |-> <<Subset, filepaths[start + n]>>,
                                batch |-> Len(batches) + 1,
                                state |-> "PENDING",
                                doc |-> BadDoc,
                                result |-> <<>>]]
           /\ batches' = Append(batches,
                  [start |-> start, end |-> end,
                   files |-> SubSeq(filepaths, start + 1, end)])
    /\ pc' = "results_get"
    /\ UNCHANGED <<k, filepaths, start, num_saved_examples, saved_num>>
    /\ UNCHANGED <<saving_tasks, error, self, config, completed, extracted, listed>>
    /\ UNCHANGED fsvars
    /\ UNCHANGED dirvars

\* Mutant of Raises: a file without a match fails its unit.
RaisesOnNoMatch(doc) == ~doc.ok \/ xpath(doc.elems) = <<>>

\* examples_from_file_task raises: parse(f) of line 38 rejects the file.
Raises(doc) == ~doc.ok

\* A worker runs examples_from_file_task for the n-th unit of the batch; the
\* file holds one of docs.  A file that does not parse fails the unit.  The
\* unit keeps the document it parsed in doc (BadDoc until it has parsed one).
examples_from_file_task_run(n, docs) ==
    /\ n \in InFlight(task_list)
    /\ \E doc \in docs :
          IF ~Raises(doc)
          THEN LET res == examples_from_file_task(doc, self.sentence_level,
                              self.keep_xml, self.remove_tail,
                              config.min_char_length)
               IN  /\ task_list' = [task_list EXCEPT ![n].state = "SUCCESS",
                                                     ![n].doc = doc,
                                                     ![n].result = res]
                   /\ extracted' = extracted + Len(res)
                   /\ read' = read (+) SetToBag({doc})
          ELSE /\ task_list' = [task_list EXCEPT ![n].state = "FAILURE",
                                                     ![n].doc = doc]
               /\ UNCHANGED <<extracted, read>>
    /\ UNCHANGED dir_eligible
    /\ UNCHANGED <<saving_tasks, pc, error, self, config, completed, listed>>
    /\ UNCHANGED runvars
    /\ UNCHANGED fsvars

\* Mutant of BatchExamples: the examples of the batch are gone through twice.
BatchExamplesTwice ==
    Flatten([n \in 1..Len(task_list) |-> task_list[n].result])
    \o Flatten([n \in 1..Len(task_list) |-> task_list[n].result])

\* The examples of the batch in the order of the loops of lines 208-209.
BatchExamples == Flatten([n \in 1..Len(task_list) |-> task_list[n].result])

\* Mutant of results_ready: the scheduler does not wait for the extraction units.
results_nowait == TRUE

\* Mutant of results_ready: a failed extraction unit counts as returned.
results_settled == InFlight(task_list) = {}

\* results.get(), line 205, returns once every extraction unit has returned.
results_ready == AllIn(task_list, "SUCCESS")

\* Mutant of saving_results_ready: the barrier of a batch without write units
\* never opens.
saving_results_some == saving_tasks # <<>> /\ AllIn(saving_tasks, "SUCCESS")

\* Mutant of saving_results_ready: the scheduler does not wait for the write units.
saving_results_nowait == TRUE

\* saving_results.get(), line 215, returns once every write unit has returned.
saving_results_ready == AllIn(saving_tasks, "SUCCESS")

\* _run, lines 205-214: results.get() returns, every example is gated with a
\* draw of its own, and one write unit per accepted example is sent.
_run_results_get ==
    /\ pc = "results_get"
    /\ results_ready
    /\ \E proba \in [1..Len(BatchExamples) -> Draws] :
          LET accepted == SelectSeq([n \in 1..Len(BatchExamples) |-> n],
                              LAMBDA n : Gate(proba[n], self.inclusion_probability))
          IN  saving_tasks' = [m \in 1..Len(accepted) |->
                                  [text |-> BatchExamples[accepted[m]],
                                   filepath |-> Subset,
                                   batch |-> Len(batches),
                                   state |-> "PENDING"]]
    /\ pc' = "saving_get"
    /\ UNCHANGED <<task_list, error, self, config, completed, extracted, listed>>
    /\ UNCHANGED runvars
    /\ UNCHANGED fsvars
    /\ UNCHANGED dirvars

\* _run, line 205: results.get() re-raises the error of a failed unit.
_run_results_raise ==
    /\ pc = "results_get"
    /\ SomeIn(task_list, "FAILURE")
    /\ pc' = "aborted"
    /\ error' = "extraction unit failed"
    /\ UNCHANGED <<self, config, completed, extracted, listed>>
    /\ UNCHANGED runvars
    /\ UNCHANGED poolvars
    /\ UNCHANGED fsvars
    /\ UNCHANGED dirvars

\* Mutant of Appended: the line is written without its newline.
Unterminated(data, text) == data \o strip(text)

\* Mutant of Appended: the file is opened for writing, not for appending.
Overwritten(data, text) == strip(text) \o <<"\n">>

\* What save_task leaves in the file: the text it writes, appended.
Appended(data, text) == data \o strip(text) \o <<"\n">>

\* Mutant of save_task_run: every write unit is handed the path of the first
\* subset's file.
save_task_run_first_file(m) ==
    /\ m \in InFlight(saving_tasks)
    /\ destination_exists
    /\ LET sub == self.subsets[1]
       IN  /\ dest_files' = [dest_files EXCEPT
                  ![sub] = [exists |-> TRUE,
                            data |-> Appended(@.data, saving_tasks[m].text)]]
           /\ completed' = [completed EXCEPT ![saving_tasks[m].filepath] = @ + 1]
    /\ saving_tasks' = [saving_tasks EXCEPT ![m].state = "SUCCESS"]
    /\ UNCHANGED <<parent_exists, destination_exists, source_dirs>>
    /\ UNCHANGED <<task_list, pc, error, self, config, extracted, listed>>
    /\ UNCHANGED runvars
    /\ UNCHANGED dirvars

\* A worker runs save_task for the m-th write unit of the batch, lines 87-89.
save_task_run(m) ==
    /\ m \in InFlight(saving_tasks)
    /\ destination_exists
    /\ LET sub == saving_tasks[m].filepath
       IN  /\ dest_files' = [dest_files EXCEPT
                  ![sub] = [exists |-> TRUE,
                            data |-> Appended(@.data, saving_tasks[m].text)]]
           /\ completed' = [completed EXCEPT ![sub] = @ + 1]
    /\ saving_tasks' = [saving_tasks EXCEPT ![m].state = "SUCCESS"]
    /\ UNCHANGED <<parent_exists, destination_exists, source_dirs>>
    /\ UNCHANGED <<task_list, pc, error, self, config, extracted, listed>>
    /\ UNCHANGED runvars
    /\ UNCHANGED dirvars

\* A worker fails to run save_task (the file cannot be opened or written).
save_task_fail(m) ==
    /\ m \in InFlight(saving_tasks)
    /\ saving_tasks' = [saving_tasks EXCEPT ![m].state = "FAILURE"]
    /\ UNCHANGED <<task_list, pc, error, self, config, completed, extracted, listed>>
    /\ UNCHANGED runvars
    /\ UNCHANGED fsvars
    /\ UNCHANGED dirvars

\* Mutant of Accumulate: the total counts the examples the batch returned.
AccumulateReturned(total, saving_results) == total + Len(BatchExamples)

\* The running total of line 216.
Accumulate(total, saving_results) == total + Len(saving_results)

\* _run, lines 215-216 and the step of the loop of line 197.
_run_saving_get ==
    /\ pc = "saving_get"
    /\ saving_results_ready
    /\ num_saved_examples' = Accumulate(num_saved_examples, saving_tasks)
    /\ start' = NextStart(start, batch_size)
    /\ pc' = "loop"
    /\ UNCHANGED <<k, filepaths, batches, saved_num>>
    /\ UNCHANGED <<error, self, config, completed, extracted, listed>>
    /\ UNCHANGED poolvars
    /\ UNCHANGED fsvars
    /\ UNCHANGED dirvars

\* _run, line 215: saving_results.get() re-raises the error of a failed unit.
_run_saving_raise ==
    /\ pc = "saving_get"
    /\ SomeIn(saving_tasks, "FAILURE")
    /\ pc' = "aborted"
    /\ error' = "write unit failed"
    /\ UNCHANGED <<self, config, completed, extracted, listed>>
    /\ UNCHANGED runvars
    /\ UNCHANGED poolvars
    /\ UNCHANGED fsvars
    /\ UNCHANGED dirvars

\* _run, line 217, and extract_from_corpus, lines 178-179: the loop of _run is
\* exhausted, its locals are dropped, the count is stored and the next subset,
\* if any, is taken.
_run_return ==
    /\ pc = "loop"
    /\ start >= Len(filepaths)
    /\ saved_num' = (Subset :> num_saved_examples) @@ saved_num
    /\ IF k < Len(self.subsets)
       THEN pc' = "call_run" /\ k' = k + 1
       ELSE pc' = "returned" /\ UNCHANGED k
    /\ filepaths' = <<>>
    /\ start' = 0
    /\ batches' = <<>>
    /\ num_saved_examples' = 0
    /\ extracted' = 0
    /\ task_list' = <<>>
    /\ saving_tasks' = <<>>
    /\ dir_eligible' = 0
    /\ read' = EmptyBag
    /\ UNCHANGED <<error, self, config, completed, listed>>
    /\ UNCHANGED fsvars

\* ------------------------------------------------------------------ inputs
\* Documents of the scheduling runs: no match, one example, two examples, and
\* a file that does not parse.
SchedDocs ==
    { Doc(<<>>),
      Doc(<<Elem(<<"a", "a", "a">>)>>),
      Doc(<<Elem(<<"a", "a", "a">>), Elem(<<"a", "a", "a">>)>>),
      BadDoc }


\* Texts of the text runs; min_char_length is 2 there.
Clean == <<"a", "a", "a">>
AtMin == <<"a", "a">>
Padded == <<" ", "a", " ", " ">>
Broken == <<"a", "\n", "a", "a">>
Blank == <<" ", "\n", " ", " ">>
TwoSent == <<"a", "a", ".", " ", "a", ".">>
ShortSent == <<"a", ".", " ", "a", ".">>

\* An element followed by text, and an element with a matched kid that is
\* followed by text inside it.
Tailed == [tag |-> XPathTag, text |-> Clean, kids |-> <<>>, tail |-> <<"b", "b">>]
Nested == [tag |-> XPathTag, text |-> <<"a">>,
           kids |-> <<[tag |-> XPathTag, text |-> AtMin, tail |-> <<"b", "b">>]>>,
           tail |-> <<>>]
Italic == [tag |-> XPathTag, text |-> <<"a">>,
           kids |-> <<[tag |-> "i", text |-> <<>>, tail |-> AtMin]>>,
           tail |-> <<>>]

TextDocs ==
    { Doc(<<Elem(Clean), Elem(AtMin)>>),
      Doc(<<Elem(Padded)>>),
      Doc(<<Elem(Broken)>>),
      Doc(<<Elem(Blank)>>),
      Doc(<<Elem(TwoSent)>>),
      Doc(<<Elem(ShortSent)>>),
      Doc(<<Tailed>>),
      Doc(<<Nested>>),
      Doc(<<Italic>>),
      Doc(<<>>),
      BadDoc }

\* ------------------------------------------------------------------ Spec
\* Before construction: any layout of the file system, the default extraction
\* options, any inclusion probability and batch size.
Init ==
    /\ InitControl
    /\ self \in [subsets : {<<"train", "eval">>},
                 sentence_level : {FALSE},
                 keep_xml : {FALSE},
                 remove_tail : {TRUE},
                 inclusion_probability : {0, 5, 10}]
    /\ config \in [min_char_length : {2}, celery_batch_size : 1..MaxBatch]
    /\ parent_exists \in BOOLEAN
    /\ destination_exists \in BOOLEAN
    /\ destination_exists => parent_exists
    /\ source_dirs \in SUBSET SubsetNames
    /\ dest_files \in [SubsetNames -> {NoFile, [exists |-> TRUE, data |-> <<"a", "\n">>]}]
    /\ \A sub \in SubsetNames : dest_files[sub].exists => destination_exists
    /\ completed = [sub \in SubsetNames |-> 0]

Next ==
    \/ __init__
    \/ extract_from_corpus
    \/ _run_iterdir(MaxFiles)
    \/ _run_apply_async
    \/ \E n \in 1..Len(task_list) : examples_from_file_task_run(n, SchedDocs)
    \/ _run_results_get
    \/ _run_results_raise
    \/ \E m \in 1..Len(saving_tasks) : save_task_run(m)
    \/ \E m \in 1..Len(saving_tasks) : save_task_fail(m)
    \/ _run_saving_get
    \/ _run_saving_raise
    \/ _run_return

Spec == Init /\ [][Next]_vars

\* ------------------------------------------------------------------ SpecText
\* After a valid layout of the file system: one subset, every combination of
\* the extraction options, files drawn from TextDocs.
InitText ==
    /\ InitControl
    /\ self \in [subsets : {<<"train">>},
                 sentence_level : BOOLEAN,
                 keep_xml : BOOLEAN,
                 remove_tail : BOOLEAN,
                 inclusion_probability : {10}]
    /\ config \in [min_char_length : {2}, celery_batch_size : 1..MaxTextFiles]
    /\ parent_exists = TRUE
    /\ destination_exists = FALSE
    /\ source_dirs = SubsetNames
    /\ dest_files = [sub \in SubsetNames |-> NoFile]
    /\ completed = [sub \in SubsetNames |-> 0]

NextText ==
    \/ __init__
    \/ extract_from_corpus
    \/ _run_iterdir(MaxTextFiles)
    \/ _run_apply_async
    \/ \E n \in 1..Len(task_list) : examples_from_file_task_run(n, TextDocs)
    \/ _run_results_get
    \/ _run_results_raise
    \/ \E m \in 1..Len(saving_tasks) : save_task_run(m)
    \/ \E m \in 1..Len(saving_tasks) : save_task_fail(m)
    \/ _run_saving_get
    \/ _run_saving_raise
    \/ _run_return

SpecText == InitText /\ [][NextText]_vars

\* The run with a scheduler that keeps running and workers that return every
\* unit they were handed: a construction that passes its checks, the
\* scheduling inputs, and a draw that accepts some examples and rejects others.
InitLive ==
    /\ InitControl
    /\ self \in [subsets : {<<"train", "eval">>},
                 sentence_level : {FALSE},
                 keep_xml : {FALSE},
                 remove_tail : {TRUE},
                 inclusion_probability : {5}]
    /\ config \in [min_char_length : {2}, celery_batch_size : 1..MaxBatch]
    /\ parent_exists = TRUE
    /\ destination_exists = FALSE
    /\ source_dirs = SubsetNames
    /\ dest_files = [sub \in SubsetNames |-> NoFile]
    /\ completed = [sub \in SubsetNames |-> 0]

\* extract_from_corpus called once more on the object whose earlier call has
\* returned: __init__ is not run again, and lines 167-179 run as before.
extract_from_corpus_again ==
    /\ pc = "returned"
    /\ saved_num' = <<>>
    /\ IF self.subsets = <<>>
       THEN pc' = "returned" /\ k' = 0
       ELSE pc' = "call_run" /\ k' = 1
    /\ UNCHANGED <<filepaths, start, batches, num_saved_examples>>
    /\ UNCHANGED <<error, self, config, completed, extracted, listed>>
    /\ UNCHANGED fsvars
    /\ UNCHANGED poolvars
    /\ UNCHANGED dirvars

\* The run whose caller may call extract_from_corpus again.
NextAgain ==
    \/ Next
    \/ extract_from_corpus_again

SpecAgain == Init /\ [][NextAgain]_vars

\* The steps of the process that called extract_from_corpus.
Scheduler ==
    \/ __init__
    \/ extract_from_corpus
    \/ _run_iterdir(MaxFiles)
    \/ _run_apply_async
    \/ _run_results_get
    \/ _run_results_raise
    \/ _run_saving_get
    \/ _run_saving_raise
    \/ _run_return

\* The steps of the workers.
Workers ==
    \/ \E n \in 1..Len(task_list) : examples_from_file_task_run(n, SchedDocs)
    \/ \E m \in 1..Len(saving_tasks) : save_task_run(m)
    \/ \E m \in 1..Len(saving_tasks) : save_task_fail(m)

\* The process runs on, and the workers go on returning the units dispatched
\* to them, each with its result or with its failure, as long as one is in
\* flight; a batch has finitely many units, so every unit returns.
Fairness ==
    /\ WF_vars(Scheduler)
    /\ WF_vars(Workers)

SpecLive == InitLive /\ [][Next]_vars /\ Fairness

\* ------------------------------------------------------------------ claims
RECURSIVE Lines(_)
\* The lines of a file, the last one included when no newline ends it.
Lines(data) ==
    LET nl == {i \in 1..Len(data) : data[i] = "\n"}
    IN  IF data = <<>> THEN <<>>
        ELSE IF nl = {} THEN <<data>>
        ELSE <<SubSeq(data, 1, Min(nl) - 1)>>
             \o Lines(SubSeq(data, Min(nl) + 1, Len(data)))

\* How often x occurs in the sequence seq.
Occurrences(seq, x) == Cardinality({i \in 1..Len(seq) : seq[i] = x})

\* C1: when construction fails because a subset directory is missing, the
\* destination directory has not been created.
C1_MissingSubsetLeavesNoDirectory ==
    error = "missing subset" => ~destination_exists

\* C2: construction against an existing destination, or a destination whose
\* parent is missing, raises the matching error, changes nothing in the file
\* system, and no unit of work exists before or after it: no step is ever
\* taken once the error is raised.
C2_RejectedConstructionChangesNothing ==
    /\ [][/\ pc # "raised"
          /\ (pc = "new" /\ (destination_exists \/ ~parent_exists)) =>
                /\ pc' = "raised"
                /\ error' = IF destination_exists THEN "already exists"
                            ELSE "parent does not exist"
                /\ UNCHANGED fsvars
                /\ UNCHANGED poolvars]_vars
    /\ [](pc \in {"new", "raised"} => task_list = <<>> /\ saving_tasks = <<>>)

C2_Witness ==
    /\ pc = "raised"
    /\ error = "parent does not exist"
    /\ ~destination_exists

\* C3: the units of work present belong to one batch, or the write units are
\* those of the batch before the extraction units and have all returned: no
\* extraction unit of batch N+1 exists while a write unit of batch N is
\* outstanding, and units of two batches are never in flight together.
C3_BatchesInSequence ==
    \A n \in 1..Len(task_list) : \A m \in 1..Len(saving_tasks) :
        /\ saving_tasks[m].batch <= task_list[n].batch
        /\ saving_tasks[m].batch < task_list[n].batch
              => saving_tasks[m].state = "SUCCESS"
        /\ task_list[n].batch = task_list[1].batch
        /\ saving_tasks[m].batch = saving_tasks[1].batch

C3_Witness ==
    \E n \in 1..Len(task_list) : \E m \in 1..Len(saving_tasks) :
        /\ task_list[n].batch = 2
        /\ task_list[n].state = "PENDING"
        /\ saving_tasks[m].batch = 1

\* C4: write units of a batch exist only when every extraction unit of the
\* batch has returned, the running total never counts a write unit that has
\* not returned, and an extraction unit and a write unit are never in flight
\* together.
C4_TwoBarriers ==
    /\ pc = "saving_get" => AllIn(task_list, "SUCCESS")
    /\ \A n \in 1..Len(task_list) : \A m \in 1..Len(saving_tasks) :
          task_list[n].batch = saving_tasks[m].batch
             => task_list[n].state = "SUCCESS"
    /\ InFlight(task_list) = {} \/ InFlight(saving_tasks) = {}
    /\ k \in 1..Len(self.subsets)
          => num_saved_examples <= completed[self.subsets[k]]
    /\ (pc = "saving_get" /\ k \in 1..Len(self.subsets))
          => num_saved_examples
               + Cardinality({m \in 1..Len(saving_tasks) :
                                 saving_tasks[m].state = "SUCCESS"})
             <= completed[self.subsets[k]]

C4_Witness ==
    /\ pc = "saving_get"
    /\ Len(task_list) = 2
    /\ Cardinality(InFlight(saving_tasks)) >= 2

\* C5: the slices dispatched so far are contiguous, start at 0, each holds
\* between 1 and batch_size files taken in list order, only the last one may
\* be shorter than batch_size and then it ends the list; no file is in two
\* slices, and when the loop is exhausted every file is in exactly one.
C5_ContiguousPartition ==
    LET N == Len(filepaths)
        size == config.celery_batch_size
        sent == Flatten([i \in 1..Len(batches) |-> batches[i].files])
    IN  /\ \A i \in 1..Len(batches) :
              LET b == batches[i]
              IN  /\ b.start = IF i = 1 THEN 0 ELSE batches[i - 1].end
                  /\ \/ b.end = b.start + size /\ b.end <= N
                     \/ b.end = N /\ N < b.start + size
                  /\ b.end - b.start \in 1..size
                  /\ b.end - b.start < size => (i = Len(batches) /\ b.end = N)
                  /\ b.files = SubSeq(filepaths, b.start + 1, b.end)
        /\ \A f \in 1..N : Occurrences(sent, filepaths[f]) <= 1
        /\ (pc = "loop" /\ start >= N)
              => \A f \in 1..N : Occurrences(sent, filepaths[f]) = 1
        /\ (pc \in {"results_get", "saving_get"} /\ batches # <<>>)
              => /\ Len(task_list) = Len(batches[Len(batches)].files)
                 /\ \A n \in 1..Len(task_list) :
                       task_list[n].filepath[2] = batches[Len(batches)].files[n]

C5_Witness ==
    /\ pc = "loop"
    /\ start >= Len(filepaths)
    /\ Len(batches) = 2
    /\ batches[1].end - batches[1].start = config.celery_batch_size
    /\ batches[2].end - batches[2].start < config.celery_batch_size

\* C6: every unit of work present belongs to the subset the run is at, the
\* result holds exactly the subsets before it, in the configured order, and
\* on return it maps every subset to the number of examples written for it.
C6_SubsetsInOrder ==
    /\ \A n \in 1..Len(task_list) : task_list[n].filepath[1] = self.subsets[k]
    /\ \A m \in 1..Len(saving_tasks) : saving_tasks[m].filepath = self.subsets[k]
    /\ pc \in {"call_run", "loop", "results_get", "saving_get", "aborted"}
          => DOMAIN saved_num = {self.subsets[i] : i \in 1..k - 1}
    /\ pc = "returned"
          => /\ DOMAIN saved_num = SubsetNames
             /\ \A sub \in SubsetNames : saved_num[sub] = completed[sub]

C6_Witness ==
    /\ pc = "returned"
    /\ saved_num["train"] = 2
    /\ saved_num["eval"] = 1

\* C7: with inclusion_probability = 0.0 no write unit is dispatched and
\* nothing is written, whatever the draws are.
C7_ZeroProbabilityWritesNothing ==
    self.inclusion_probability = 0
       => /\ saving_tasks = <<>>
          /\ \A sub \in SubsetNames : completed[sub] = 0

\* C8: with inclusion_probability = 1.0 the write units of a batch are the
\* examples its extraction units returned, and between batches the running
\* total and the number of examples written for the subset equal the number
\* of examples the extraction units of the subset returned.
C8_FullProbabilityDropsNothing ==
    self.inclusion_probability = 10
       => /\ pc = "saving_get"
                => [m \in 1..Len(saving_tasks) |-> saving_tasks[m].text]
                   = BatchExamples
          /\ (pc = "loop" /\ k \in 1..Len(self.subsets))
                => /\ num_saved_examples = extracted
                   /\ completed[self.subsets[k]] = extracted

C8_Witness ==
    /\ self.inclusion_probability = 10
    /\ pc = "loop"
    /\ start >= Len(filepaths)
    /\ Len(batches) >= 2
    /\ extracted >= 3
    /\ num_saved_examples = extracted

\* C9: every line of a destination file is longer than min_char_length.
C9_LinesLongerThanMinimum ==
    \A sub \in SubsetNames :
        \A i \in 1..Len(Lines(dest_files[sub].data)) :
            Len(Lines(dest_files[sub].data)[i]) > config.min_char_length

\* C10: a destination file holds as many newlines as write units have
\* returned for it and ends with one, and the text a write unit writes before
\* its newline holds none.
C10_OneLinePerWriteUnit ==
    /\ \A sub \in SubsetNames :
          /\ Newlines(dest_files[sub].data) = completed[sub]
          /\ dest_files[sub].data = <<>>
             \/ dest_files[sub].data[Len(dest_files[sub].data)] = "\n"
    /\ \A m \in 1..Len(saving_tasks) : Newlines(strip(saving_tasks[m].text)) = 0

C10_Witness ==
    \E m \in 1..Len(saving_tasks) :
        /\ saving_tasks[m].state = "SUCCESS"
        /\ saving_tasks[m].text = cleanup(Broken)
        /\ Newlines(Broken) > 0
        /\ dest_files["train"].exists

\* C11: in a run that meets no error, the count _run holds after a batch's
\* second barrier is the number of lines the subset's file has gained since
\* the run began (the file did not exist before: line 154), also after a batch
\* that dispatched no write unit; and the count extract_from_corpus returns
\* for a subset is the number of lines of that subset's file.
C11_CountEqualsLinesAppended ==
    /\ pc = "loop" =>
          /\ num_saved_examples = Newlines(dest_files[Subset].data)
          /\ num_saved_examples = Len(Lines(dest_files[Subset].data))
    /\ pc = "returned" =>
          \A sub \in SubsetNames :
              saved_num[sub] = Len(Lines(dest_files[sub].data))

\* Two batches are done; the last one returned examples, none passed the
\* draw, and the count is still the line count of the earlier batch.
C11_Witness ==
    /\ pc = "loop"
    /\ Len(batches) = 2
    /\ BatchExamples # <<>>
    /\ saving_tasks = <<>>
    /\ num_saved_examples >= 1
    /\ dest_files[Subset].exists

\* The bag of the members of a sequence.
BagOf(seq) ==
    [x \in {seq[i] : i \in 1..Len(seq)} |-> Occurrences(seq, x)]

\* What a run with batch size 1 appends for one file: every example of the
\* file, stripped, when every example passes the draw.
FileLines(doc) ==
    LET res == examples_from_file_task(doc, self.sentence_level, self.keep_xml,
                                       self.remove_tail, config.min_char_length)
    IN  [n \in 1..Len(res) |-> strip(res[n])]

RECURSIVE ReferenceLines(_)
ReferenceLines(docs) ==
    IF docs = EmptyBag THEN EmptyBag
    ELSE LET doc == CHOOSE d \in BagToSet(docs) : TRUE
         IN  BagOf(FileLines(doc)) (+) ReferenceLines(docs (-) SetToBag({doc}))

\* C12: with inclusion probability 1, when the loop of a run is over the
\* lines of the subset's file, as a bag, and the count are those of the
\* one-file-at-a-time run over the same files, whatever the batch size
\* (smaller than, equal to or larger than the number of files) and whatever
\* the order in which the units of a batch ran; every file was parsed once.
C12_BatchSizeIsNoFilter ==
    (pc = "loop" /\ start >= Len(filepaths) /\ self.inclusion_probability = 10) =>
        /\ BagCardinality(read) = Len(filepaths)
        /\ \A reference \in {ReferenceLines(read)} :
               /\ BagOf(Lines(dest_files[Subset].data)) = reference
               /\ num_saved_examples = BagCardinality(reference)

\* A batch of two files whose write units completed in the reverse of the
\* order of dispatch.
C12_Witness ==
    /\ pc = "loop"
    /\ start >= Len(filepaths)
    /\ batch_size = 2
    /\ Len(task_list) = 2
    /\ task_list[1].doc = Doc(<<Elem(Clean), Elem(AtMin)>>)
    /\ task_list[2].doc = Doc(<<Elem(Padded)>>)
    /\ ~self.keep_xml
    /\ Lines(dest_files[Subset].data) = <<<<"a">>, Clean>>

\* Some unit of the pool has failed.
Failed == SomeIn(task_list, "FAILURE") \/ SomeIn(saving_tasks, "FAILURE")

\* C13: once a unit has failed the scheduler takes no step but the raise of
\* the barrier it waits at: no batch and no subset is dispatched after it,
\* _run's locals and the counts of the finished subsets stay as they are and
\* are never returned; and a batch with a failed extraction unit has no
\* write unit.
C13_FailureAbortsRun ==
    /\ [](Failed => pc \in {"results_get", "saving_get", "aborted"})
    /\ [](SomeIn(task_list, "FAILURE") =>
             \A m \in 1..Len(saving_tasks) :
                 saving_tasks[m].batch < task_list[1].batch)
    /\ [](pc = "aborted" =>
             /\ Failed
             /\ error \in {"extraction unit failed", "write unit failed"}
             /\ \A n \in k..Len(self.subsets) : self.subsets[n] \notin DOMAIN saved_num)
    /\ [][Failed =>
             /\ pc' \in {pc, "aborted"}
             /\ UNCHANGED runvars
             /\ Len(task_list') = Len(task_list)
             /\ Len(saving_tasks') = Len(saving_tasks)]_vars

\* The run is aborted in the second subset by a failed extraction unit: the
\* count of the first subset was stored and is not returned.
C13_Witness ==
    /\ pc = "aborted"
    /\ error = "extraction unit failed"
    /\ k = 2
    /\ DOMAIN saved_num = {"train"}
    /\ saved_num["train"] >= 1
    /\ saving_tasks = <<>>

\* The lines of the current subset's file that the batches before the
\* current one appended: one per write unit counted on line 216.
FlushedOf(data, count) ==
    LET lines == Lines(data)
    IN  SubSeq(lines, 1, Min({Len(lines), count}))

FlushedLines == FlushedOf(dest_files[Subset].data, num_saved_examples)

\* The scheduler is inside a batch, or was when the run was aborted.
InBatch == pc \in {"results_get", "saving_get", "aborted"}

\* C14: while the units of a batch are in flight, and after one of them has
\* failed the run, the file holds a complete line for every write unit of the
\* earlier batches of the subset (each the example "aaa" of the scheduling
\* inputs), and no step of the batch or of the abort changes those lines.
C14_EarlierBatchesDurable ==
    /\ [](InBatch =>
             LET data == dest_files[Subset].data
             IN  /\ Len(FlushedLines) = num_saved_examples
                 /\ \A i \in 1..num_saved_examples : FlushedLines[i] = <<"a", "a", "a">>
                 /\ data # <<>> => data[Len(data)] = "\n")
    /\ [][InBatch =>
             FlushedOf(dest_files'[Subset].data, num_saved_examples)
                 = FlushedLines]_vars

\* A write unit of the second batch has failed the run after another one of
\* that batch had appended its line behind the line of the first batch.
C14_Witness ==
    /\ pc = "aborted"
    /\ error = "write unit failed"
    /\ num_saved_examples >= 1
    /\ Len(Lines(dest_files[Subset].data)) > num_saved_examples

\* The stripped texts of the write units of the batch that have completed.
WrittenOfBatch ==
    LET done == SelectSeq(saving_tasks, LAMBDA t : t.state = "SUCCESS")
    IN  [m \in 1..Len(done) |-> strip(done[m].text)]

\* C15: with each save_task one atomic append, the file is at all times a
\* sequence of complete lines: every change of it is the append of the
\* stripped text of one write unit in flight and of one newline, which
\* completes that unit; no stripped text holds a newline; and the last lines
\* of the file are, in some order, the stripped texts of the completed write
\* units of the batch.
C15_WholeLinesOnly ==
    /\ [](\A sub \in SubsetNames :
             LET data == dest_files[sub].data
             IN  data # <<>> => data[Len(data)] = "\n")
    /\ [](\A m \in 1..Len(saving_tasks) : Newlines(strip(saving_tasks[m].text)) = 0)
    /\ [](pc \in {"loop", "results_get", "saving_get", "aborted"} =>
             \A lines \in {Lines(dest_files[Subset].data)} :
                 \A written \in {WrittenOfBatch} :
                     /\ Len(written) <= Len(lines)
                     /\ BagOf(SubSeq(lines, Len(lines) - Len(written) + 1,
                                     Len(lines)))
                            = BagOf(written))
    /\ [][\A sub \in SubsetNames :
             dest_files'[sub] # dest_files[sub] =>
                 \E m \in InFlight(saving_tasks) :
                     /\ saving_tasks[m].filepath = sub
                     /\ saving_tasks'[m].state = "SUCCESS"
                     /\ dest_files'[sub].data
                            = dest_files[sub].data
                              \o strip(saving_tasks[m].text) \o <<"\n">>]_vars

\* Two write units of one batch with different texts have appended their
\* lines in the reverse of the order of dispatch.
C15_Witness ==
    /\ pc = "saving_get"
    /\ Len(saving_tasks) = 2
    /\ AllIn(saving_tasks, "SUCCESS")
    /\ strip(saving_tasks[1].text) # strip(saving_tasks[2].text)
    /\ saving_tasks[1].text # strip(saving_tasks[1].text)
    /\ Lines(dest_files[Subset].data)
           = <<strip(saving_tasks[2].text), strip(saving_tasks[1].text)>>

\* The claim as stated.  C16: at any instant the units in flight, extraction
\* and write units alike, number at most batch_size.
C16_InFlightAtMostBatchSize ==
    Cardinality(InFlight(task_list)) + Cardinality(InFlight(saving_tasks))
        <= batch_size

\* C16, amended: the extraction units in flight number at most batch_size and
\* all belong to one batch; the write units in flight number at most the
\* examples the extraction units of that batch returned, which can be more
\* than batch_size; extraction and write units are never in flight together.
C16_InFlightBounded ==
    /\ Cardinality(InFlight(task_list)) <= batch_size
    /\ Len(task_list) <= batch_size
    /\ \A n \in 1..Len(task_list) : task_list[n].batch = task_list[1].batch
    /\ Cardinality(InFlight(saving_tasks)) <= Len(BatchExamples)
    /\ InFlight(task_list) = {} \/ InFlight(saving_tasks) = {}

\* A batch of one file under batch size 1 that returned two examples: two
\* write units are in flight.
C16_Witness ==
    /\ batch_size = 1
    /\ pc = "saving_get"
    /\ Len(task_list) = 1
    /\ Cardinality(InFlight(saving_tasks)) = 2
    /\ Len(BatchExamples) = 2

\* C17: when the listed directory holds no entry with suffix .xml, .XML or
\* .nxml, _run has no file, dispatches no unit and meets no error; its only
\* step is to return 0 for the subset, without touching a file, and the run
\* goes on with the next subset or, after the last one, returns.
C17_EmptySubsetIsValid ==
    /\ []((pc = "loop" /\ dir_eligible = 0) =>
             /\ filepaths = <<>>
             /\ batches = <<>>
             /\ task_list = <<>>
             /\ saving_tasks = <<>>
             /\ error = "")
    /\ [][(pc = "loop" /\ dir_eligible = 0) =>
             /\ saved_num' = (Subset :> 0) @@ saved_num
             /\ pc' = IF k < Len(self.subsets) THEN "call_run" ELSE "returned"
             /\ k' = IF k < Len(self.subsets) THEN k + 1 ELSE k
             /\ task_list' = <<>>
             /\ saving_tasks' = <<>>
             /\ error' = ""
             /\ UNCHANGED fsvars]_vars

\* The first subset's directory held entries, none of them eligible: 0 is
\* stored for it, no file was made, and _run is called for the second subset.
C17_Witness ==
    /\ pc = "call_run"
    /\ k = 2
    /\ listed >= 1
    /\ saved_num = ("train" :> 0)
    /\ ~dest_files["train"].exists
    /\ error = ""

\* The extraction units that have returned, while the scheduler waits for them
\* at the first barrier or has given up there: the only states in which a
\* unit returns.
Returned ==
    IF pc \in {"results_get", "aborted"}
    THEN {n \in 1..Len(task_list) : task_list[n].state = "SUCCESS"}
    ELSE {}

\* The inner texts of the elements the selector matches in doc.
Candidates(doc) ==
    LET elements == _parse_xml_file(doc, self.remove_tail)
    IN  [n \in 1..Len(elements) |-> innertext(elements[n])]

\* C18: without keep_xml and without sentence segmentation, a unit returns, in
\* document order, the cleaned inner text of exactly those matched elements
\* whose inner text is longer than min_char_length: one candidate per element,
\* never split, and an inner text of exactly min_char_length characters is
\* dropped.
C18_OneCandidatePerElement ==
    (~self.keep_xml /\ ~self.sentence_level) =>
        \A n \in Returned :
            \A texts \in {Candidates(task_list[n].doc)} :
                \A kept \in {SelectSeq(texts,
                                 LAMBDA t : Len(t) > config.min_char_length)} :
                    /\ Len(task_list[n].result) <= Len(texts)
                    /\ task_list[n].result
                           = [j \in 1..Len(kept) |-> cleanup(kept[j])]

\* A file with an element of three characters and one of two, the minimum:
\* the run wrote exactly one line, the longer text.
C18_Witness ==
    /\ ~self.keep_xml /\ ~self.sentence_level
    /\ config.min_char_length = Len(AtMin)
    /\ pc = "loop"
    /\ start >= Len(filepaths)
    /\ Len(filepaths) = 1
    /\ task_list[1].doc = Doc(<<Elem(Clean), Elem(AtMin)>>)
    /\ task_list[1].result = <<Clean>>
    /\ num_saved_examples = 1
    /\ dest_files[Subset].data = Clean \o <<"\n">>

\* The elements the selector matches in doc whose inner text is longer than
\* min_char_length.
Qualifying(doc) ==
    SelectSeq(_parse_xml_file(doc, self.remove_tail),
              LAMBDA e : Len(innertext(e)) > config.min_char_length)

\* C19: with keep_xml a unit returns, in document order, the cleaned
\* serialized markup of exactly those matched elements whose inner text, not
\* whose markup, is longer than min_char_length, one example per element, with
\* or without sentence_level; no example is the inner text of its element.
C19_MarkupKept ==
    self.keep_xml =>
        \A n \in Returned :
            \A hits \in {Qualifying(task_list[n].doc)} :
                /\ task_list[n].result
                       = [j \in 1..Len(hits) |-> cleanup(tostring(hits[j]))]
                /\ \A j \in 1..Len(hits) :
                       /\ task_list[n].result[j] # innertext(hits[j])
                       /\ task_list[n].result[j] # cleanup(innertext(hits[j]))

\* With keep_xml and sentence_level, a text of two sentences is returned as
\* one example, its markup; and an element whose inner text has the minimum
\* length is dropped although its markup is longer.
C19_Witness ==
    /\ self.keep_xml /\ self.sentence_level
    /\ Len(task_list) = 2
    /\ AllIn(task_list, "SUCCESS")
    /\ task_list[1].doc = Doc(<<Elem(TwoSent)>>)
    /\ task_list[1].result = <<OpenTag(XPathTag) \o TwoSent \o CloseTag(XPathTag)>>
    /\ task_list[2].doc = Doc(<<Elem(Clean), Elem(AtMin)>>)
    /\ Len(task_list[2].result) = 1
    /\ Len(tostring(Elem(AtMin))) > config.min_char_length

\* Some unit of the pool has not returned.
Waiting == InFlight(task_list) # {} \/ InFlight(saving_tasks) # {}

\* While a unit has not returned nothing is dispatched and _run's locals
\* stay as they are.
NothingDispatched ==
    /\ Len(task_list') = Len(task_list)
    /\ Len(saving_tasks') = Len(saving_tasks)
    /\ UNCHANGED runvars

\* Unless a unit fails, the run ends with a count for every subset, which
\* it stores only after the last batch of the subset (line 178).
ReturnsUnlessFailed ==
    <>(Failed \/ (pc = "returned" /\ DOMAIN saved_num = SubsetNames))

Matched(doc) ==
    LET hits == xpath(doc.elems)
    IN  [n \in 1..Len(hits) |-> ElementAt(doc.elems, hits[n])]

\* The characters of the tails of the matched elements of doc.
TailChars(doc) ==
    UNION {UNION {{elements[n].tail[i] : i \in 1..Len(elements[n].tail)} :
                     n \in 1..Len(elements)} :
              elements \in {Matched(doc)}}

\* C21: with remove_tail, no example a unit returns holds a character of the
\* tail of a matched element, with keep_xml and without (in the text inputs
\* the tails of matched elements are written in a letter that occurs nowhere
\* else); without remove_tail the examples are those of the elements as the
\* file holds them, tails included.
C21_TailRemoved ==
    \A n \in Returned :
        \A doc \in {task_list[n].doc} :
            IF self.remove_tail
            THEN \A tails \in {TailChars(doc)} :
                     \A j \in 1..Len(task_list[n].result) :
                         \A i \in 1..Len(task_list[n].result[j]) :
                             task_list[n].result[j][i] \notin tails
            ELSE task_list[n].result
                     = _cleanup(_extract_text_from_elements(
                                    Matched(doc), self.sentence_level,
                                    self.keep_xml, config.min_char_length))

\* With remove_tail and keep_xml, an element followed by text is returned as
\* its markup alone.
C21_Witness ==
    /\ self.remove_tail /\ self.keep_xml
    /\ pc = "results_get"
    /\ Len(task_list) >= 1
    /\ task_list[1].state = "SUCCESS"
    /\ task_list[1].doc = Doc(<<Tailed>>)
    /\ TailChars(Doc(<<Tailed>>)) = {"b"}
    /\ task_list[1].result = <<OpenTag(XPathTag) \o Clean \o CloseTag(XPathTag)>>

\* The units of the batch that parsed a file in which the selector matches
\* nothing.
Unmatched ==
    {n \in 1..Len(task_list) :
        task_list[n].doc.ok /\ xpath(task_list[n].doc.elems) = <<>>}

\* The claim as stated.  C22: a file in which the selector matches nothing
\* fails its extraction unit.
C22_NoMatchFailsUnit ==
    \A n \in Unmatched : task_list[n].state = "FAILURE"

\* C22, amended: a file in which the selector matches nothing is no error:
\* its unit returns no example, only a file that does not parse fails a unit,
\* and a batch of such files passes both barriers without a write unit and
\* without an error.
C22_NoMatchIsNoError ==
    /\ \A n \in Unmatched :
          task_list[n].state = "SUCCESS" /\ task_list[n].result = <<>>
    /\ \A n \in 1..Len(task_list) :
          task_list[n].state = "FAILURE" => ~task_list[n].doc.ok
    /\ (pc \in {"saving_get", "loop"} /\ task_list # <<>>
            /\ Unmatched = 1..Len(task_list)) =>
          saving_tasks = <<>> /\ error = ""

\* The first batch held a file without a match, the second a file with one:
\* the run went on and wrote the example of the second.
C22_Witness ==
    /\ pc = "loop"
    /\ batch_size = 1
    /\ Len(batches) = 2
    /\ CopiesIn(Doc(<<>>), read) = 1
    /\ Unmatched = {}
    /\ num_saved_examples = 1

\* The sentences of the inner texts of the matched elements of doc, in
\* document and segmenter order.
Sentences(doc) ==
    LET texts == Candidates(doc)
    IN  Flatten([n \in 1..Len(texts) |-> tokenize(texts[n])])

\* C23: without keep_xml and with sentence segmentation, a unit returns, in
\* order, the cleaned sentences that are longer than min_char_length, each
\* judged by its own length: an inner text longer than the minimum whose
\* sentences are all too short gives no example.
C23_SentencesFilteredOneByOne ==
    (~self.keep_xml /\ self.sentence_level) =>
        \A n \in Returned :
            \A kept \in {SelectSeq(Sentences(task_list[n].doc),
                             LAMBDA t : Len(t) > config.min_char_length)} :
                task_list[n].result = [j \in 1..Len(kept) |-> cleanup(kept[j])]

\* An inner text of five characters, more than the minimum, in two sentences
\* of two characters each: no example; and a text of two sentences of which
\* the longer one alone is returned.
C23_Witness ==
    /\ ~self.keep_xml /\ self.sentence_level
    /\ pc = "results_get"
    /\ Len(task_list) = 2
    /\ AllIn(task_list, "SUCCESS")
    /\ task_list[1].doc = Doc(<<Elem(ShortSent)>>)
    /\ Len(ShortSent) > config.min_char_length
    /\ Len(tokenize(ShortSent)) = 2
    /\ task_list[1].result = <<>>
    /\ task_list[2].doc = Doc(<<Elem(TwoSent)>>)
    /\ task_list[2].result = <<<<"a", "a", ".">>>>

\* data is the beginning of later.
IsPrefix(data, later) ==
    Len(data) <= Len(later) /\ SubSeq(later, 1, Len(data)) = data

\* C24: no step of a write unit, of the scheduler, of a failure or of a
\* repeated call of extract_from_corpus removes a destination file or changes
\* what it holds: the content before the step is the beginning of the content
\* after it, and a write unit that completes leaves the file longer than it
\* was; so the content at any earlier state is a prefix of the content at any
\* later state, and a second call adds its lines behind those of the first.
C24_AppendOnly ==
    [][\A sub \in SubsetNames :
          /\ dest_files[sub].exists => dest_files'[sub].exists
          /\ IsPrefix(dest_files[sub].data, dest_files'[sub].data)
          /\ completed'[sub] # completed[sub] =>
                 Len(dest_files'[sub].data) > Len(dest_files[sub].data)]_vars

\* A second call has returned: the file of the first subset holds the lines
\* of the first call and, behind them, those of the second.
C24_Witness ==
    /\ pc = "returned"
    /\ saved_num["train"] >= 1
    /\ Len(Lines(dest_files["train"].data)) > saved_num["train"]
    /\ completed["train"] = Len(Lines(dest_files["train"].data))

\* The examples the extraction units of the batch returned, file by file.
ReturnedOfBatch ==
    Flatten([n \in 1..Len(task_list) |-> task_list[n].result])

\* The texts of the write units of the batch.
DispatchedOfBatch == [m \in 1..Len(saving_tasks) |-> saving_tasks[m].text]

\* C25: whatever the inclusion probability and the draws, the write units of
\* a batch are, as a bag, among the examples its extraction units returned and
\* no more than them; over the run the write units counted never exceed the
\* examples returned, and after each batch the lines of the subset's file
\* are, as a bag, among the stripped examples of the files parsed.
C25_WrittenAmongReturned ==
    /\ pc \in {"saving_get", "loop"} =>
          \A dispatched \in {DispatchedOfBatch} :
              \A returned \in {ReturnedOfBatch} :
                  /\ Len(dispatched) <= Len(returned)
                  /\ BagOf(dispatched) \sqsubseteq BagOf(returned)
    /\ pc \in {"loop", "results_get", "saving_get", "aborted"} =>
          /\ num_saved_examples <= extracted
          /\ pc = "saving_get" =>
                num_saved_examples + Len(saving_tasks) <= extracted
    /\ pc = "loop" =>
          BagOf(Lines(dest_files[Subset].data)) \sqsubseteq ReferenceLines(read)

\* With a probability strictly between 0 and 1, of the two examples of one
\* file one passed the draw and the other did not.
C25_Witness ==
    /\ self.inclusion_probability = 5
    /\ pc = "saving_get"
    /\ Len(task_list) = 1
    /\ Len(task_list[1].result) = 2
    /\ Len(saving_tasks) = 1
    /\ AllIn(saving_tasks, "SUCCESS")
    /\ Len(Lines(dest_files[Subset].data)) = num_saved_examples + 1

\* C26: in a run without a failed unit a subset's file exists if and only if
\* a write unit for it has completed; so when extract_from_corpus has
\* returned, every subset has its count, and the file of a subset exists if
\* and only if its count is not 0.
C26_FileIffWritten ==
    /\ (pc \notin {"new", "raised"} /\ ~Failed) =>
          \A sub \in SubsetNames : dest_files[sub].exists <=> completed[sub] >= 1
    /\ pc = "returned" =>
          /\ DOMAIN saved_num = SubsetNames
          /\ \A sub \in SubsetNames : dest_files[sub].exists <=> saved_num[sub] >= 1

\* The run has returned 0 for the first subset, which has no file, and a
\* count for the second, which has one.
C26_Witness ==
    /\ pc = "returned"
    /\ saved_num["train"] = 0
    /\ ~dest_files["train"].exists
    /\ saved_num["eval"] >= 1
    /\ dest_files["eval"].exists
    /\ destination_exists

\* C27: the inner text of every matched element, as the extraction unit reads
\* it after the tails were cleared, is its inner text in the file as parsed.
C27_InnerTextUntouched ==
    \A n \in Returned :
        \A doc \in {task_list[n].doc} :
            Candidates(doc) = [j \in 1..Len(Matched(doc)) |-> innertext(Matched(doc)[j])]

====
